---- MODULE Spec2Model ----
(***************************************************************************)
(* The blocking file access bridge of pdfrx (pdfium_interop.cpp):          *)
(* struct pdfrx_file_access, the static read function installed as         *)
(* m_GetBlock, pdfrx_file_access_create, pdfrx_file_access_destroy and     *)
(* pdfrx_file_access_set_value.                                            *)
(*                                                                         *)
(* One bridge object is modelled at a time (the functions share no state   *)
(* across objects).  Worker threads run read(), host threads run           *)
(* pdfrx_file_access_set_value(); each statement of the two functions is   *)
(* one step, so every interleaving the mutex allows is explored.           *)
(* std::condition_variable::wait(lock) is called without a predicate, so   *)
(* it may also return without any notify_one (a spurious wake-up): the     *)
(* step cond_wait_spurious.                                                *)
(*                                                                         *)
(* SpecSameThread is a host with a single thread of control, which calls   *)
(* set_value from inside readBlock or from its loop between two calls;     *)
(* SpecPair runs the copy of the same functions in                         *)
(* darwin/Classes/pdfium_interop.cpp (the darwin_ actions) beside this one.*)
(***************************************************************************)
EXTENDS Integers, Sequences, FiniteSets, TLC

\* ---------------------------------------------------------------- bounds
\* Threads that call read() (the wrapped library's workers) and threads that
\* call pdfrx_file_access_set_value() (the host's completion side).
Readers == {"w1", "w2"}
Completers == {"h1", "h2"}
Threads == Readers \cup Completers

\* Callbacks a protocol-following host has not yet answered.
MaxOwed == 2

\* Arguments of pdfrx_file_access_create.
FileSizes == {3}
ReadBlocks == {"cbA"}
Params == {"ctxA", "ctxB"}
\* (position, size) pairs of read(): one inside the file, one past its end.
ReadArgs == {<<0, 1>>, <<2, 2>>}
\* Values of the int passed to pdfrx_file_access_set_value.
Codes == {0, 1}
\* What the asynchronous side can write into a destination buffer.
Patterns == {"P"}

NoOwner == "free"
Blank == "blank"

VARIABLES
  live,        \* TRUE between pdfrx_file_access_create and _destroy
  fileAccess,  \* FPDF_FILEACCESS fileAccess: m_FileLen, m_GetBlock, m_Param
  retValue,    \* int retValue
  readBlock,   \* pdfrx_read_function readBlock
  param,       \* void *param
  mutex,       \* std::mutex mutex: the thread that owns it, or NoOwner
  pc,          \* position of every thread; "waiting" = blocked in cond.wait
  args,        \* read()'s arguments position, pBuf, size, per worker
  code,        \* pdfrx_file_access_set_value's argument retValue, per host thread
  ret,         \* <<v>> once the worker's latest read() returned v, else <<>>
  requests,    \* per worker: the readBlock invocations of its latest read()
               \* on this bridge
  since,       \* per worker: the completions signalled on this bridge since
               \* its latest readBlock invocation
  dropped,     \* TRUE once notify_one was called on this bridge with no waiter
  mem,         \* contents of each worker's destination buffer
  hostWrote,   \* what the asynchronous side last wrote into each buffer
  created,     \* the arguments given to pdfrx_file_access_create
  owed,        \* readBlock invocations not yet answered by a set_value call
  lastCode,    \* the code of the latest set_value call that finished on this
               \* bridge, 0 when none has
  strict       \* TRUE when the embedding host follows the protocol of the
               \* bridge: reads never overlap, one set_value per readBlock

vars == <<live, fileAccess, retValue, readBlock, param, mutex, pc, args,
          code, ret, requests, since, dropped, mem, hostWrote, created, owed,
          lastCode, strict>>

bridgeFields == <<fileAccess, retValue, readBlock, param>>
lifeVars == <<live, created, strict>>
bufVars == <<mem, hostWrote>>

\* ------------------------------------------------------------- helpers
Waiters == {t \in Readers : pc[t] = "waiting"}

\* Program positions at which a thread owns the mutex.
ReaderHolds == {"locked", "cb_locking", "stuck", "requested",
                "reacquired"}
CompleterHolds == {"locked", "written", "notified"}
Holders == {t \in Readers : pc[t] \in ReaderHolds}
             \cup {c \in Completers : pc[c] \in CompleterHolds}

\* The completions signalled since a request: how many (0, 1, or 2 for
\* "more than one") and the code of the first.
NoneSince == [n |-> 0, first |-> 0]
Remember(s, v) == [n |-> IF s.n < 2 THEN s.n + 1 ELSE s.n,
                   first |-> IF s.n = 0 THEN v ELSE s.first]

\* A lock that excludes nobody.
MutexFree_NoExclusion == TRUE

\* std::unique_lock<std::mutex> lock(fileAccess->mutex) can be acquired.
MutexFree == mutex = NoOwner

\* -------------------------------------------------------------- Init
InitBridge ==
  /\ live = FALSE
  /\ fileAccess = [m_FileLen |-> 0, m_GetBlock |-> "null", m_Param |-> "null"]
  /\ retValue = 0
  /\ readBlock = "null"
  /\ param = "null"
  /\ mutex = NoOwner
  /\ pc = [t \in Threads |-> "idle"]
  /\ args = [t \in Readers |-> [position |-> 0, pBuf |-> t, size |-> 0]]
  /\ code = [c \in Completers |-> 0]
  /\ ret = [t \in Readers |-> <<>>]
  /\ requests = [t \in Readers |-> <<>>]
  /\ since = [t \in Readers |-> NoneSince]
  /\ dropped = FALSE
  /\ mem = [t \in Readers |-> Blank]
  /\ hostWrote = [t \in Readers |-> Blank]
  /\ created = [fileSize |-> 0, readBlock |-> "null", param |-> "null"]
  /\ owed = 0
  /\ lastCode = 0

\* Any caller at all.
Init == InitBridge /\ strict = FALSE

\* A host that follows the protocol.
InitHost == InitBridge /\ strict = TRUE

\* ------------------------------------------- pdfrx_file_access_create
\* A create that hands the caller's context, not the bridge, to m_GetBlock.
pdfrx_file_access_create_WrongParam(fileSize, rb, p) ==
  /\ ~live
  /\ live' = TRUE
  /\ fileAccess' = [m_FileLen |-> fileSize, m_GetBlock |-> "read",
                    m_Param |-> p]
  /\ retValue' = 0
  /\ readBlock' = rb
  /\ param' = p
  /\ mutex' = NoOwner
  /\ dropped' = FALSE
  /\ owed' = 0
  /\ created' = [fileSize |-> fileSize, readBlock |-> rb, param |-> p]
  /\ requests' = [t \in Readers |-> <<>>]
  /\ since' = [t \in Readers |-> NoneSince]
  /\ lastCode' = 0
  /\ UNCHANGED <<strict, pc, args, code, ret, bufVars>>

pdfrx_file_access_create(fileSize, rb, p) ==
  /\ ~live
  /\ live' = TRUE
  /\ fileAccess' = [m_FileLen |-> fileSize, m_GetBlock |-> "read",
                    m_Param |-> "fileAccess"]
  /\ retValue' = 0
  /\ readBlock' = rb
  /\ param' = p
  /\ mutex' = NoOwner
  /\ dropped' = FALSE
  /\ owed' = 0
  /\ created' = [fileSize |-> fileSize, readBlock |-> rb, param |-> p]
  /\ requests' = [t \in Readers |-> <<>>]
  /\ since' = [t \in Readers |-> NoneSince]
  /\ lastCode' = 0
  /\ UNCHANGED <<strict, pc, args, code, ret, bufVars>>

\* ------------------------------------------ pdfrx_file_access_destroy
\* A destroy that cancels the reads still blocked in the wait.
pdfrx_file_access_destroy_Cancelling ==
  /\ live
  /\ \A c \in Completers : pc[c] = "idle"
  /\ \A t \in Readers : pc[t] \in {"idle", "waiting"}
  /\ owed = 0
  /\ live' = FALSE
  /\ owed' = 0
  /\ pc' = [t \in Threads |-> IF pc[t] = "waiting" THEN "woken" ELSE pc[t]]
  /\ UNCHANGED <<strict, bridgeFields, mutex, args, code, ret, requests, since,
                 dropped, bufVars, created, lastCode>>

\* delete fileAccess.  The caller's precondition (no thread inside read()
\* or set_value, no completion still to come) is the guard; the freed
\* fields keep their stale values.
pdfrx_file_access_destroy ==
  /\ live
  /\ \A t \in Threads : pc[t] = "idle"
  /\ owed = 0
  /\ live' = FALSE
  /\ owed' = 0
  /\ UNCHANGED <<strict, bridgeFields, mutex, pc, args, code, ret, requests,
                 since, dropped, bufVars, created, lastCode>>

\* ---------------------------------------------------------------- read
\* Entry into read(param, position, pBuf, size) through m_GetBlock; the
\* caller hands in a destination buffer whose contents are not yet set.
read_call(t, position, size) ==
  /\ live
  /\ pc[t] = "idle"
  /\ strict => /\ \A u \in Readers : pc[u] = "idle"
               /\ owed < MaxOwed
  /\ pc' = [pc EXCEPT ![t] = "locking"]
  /\ args' = [args EXCEPT ![t] = [position |-> position, pBuf |-> t,
                                  size |-> size]]
  /\ ret' = [ret EXCEPT ![t] = <<>>]
  /\ requests' = [requests EXCEPT ![t] = <<>>]
  /\ since' = [since EXCEPT ![t] = NoneSince]
  /\ mem' = [mem EXCEPT ![t] = Blank]
  /\ hostWrote' = [hostWrote EXCEPT ![t] = Blank]
  /\ UNCHANGED <<lifeVars, bridgeFields, mutex, code, dropped, owed, lastCode>>

\* std::unique_lock<std::mutex> lock(fileAccess->mutex);
read_lock(t) ==
  /\ pc[t] = "locking"
  /\ MutexFree
  /\ mutex' = t
  /\ pc' = [pc EXCEPT ![t] = "locked"]
  /\ UNCHANGED <<lifeVars, bridgeFields, args, code, ret, requests, since,
                 dropped, bufVars, owed, lastCode>>

\* A request cut down to the end of the file.
Request_Clamped(t) ==
  LET room == fileAccess.m_FileLen - args[t].position
  IN [fn |-> readBlock, param |-> param,
      position |-> args[t].position, pBuf |-> args[t].pBuf,
      size |-> IF args[t].size > room THEN room ELSE args[t].size]

\* The request handed to the host's callback.
Request(t) == [fn |-> readBlock, param |-> param,
               position |-> args[t].position, pBuf |-> args[t].pBuf,
               size |-> args[t].size]

\* fileAccess->readBlock(fileAccess->param, position, pBuf, size);
read_readBlock(t) ==
  /\ pc[t] = "locked"
  /\ requests' = [requests EXCEPT ![t] = Append(requests[t], Request(t))]
  /\ since' = [since EXCEPT ![t] = NoneSince]
  /\ owed' = IF strict THEN owed + 1 ELSE owed
  /\ pc' = [pc EXCEPT ![t] = "requested"]
  /\ UNCHANGED <<lifeVars, bridgeFields, mutex, args, code, ret, dropped,
                 bufVars, lastCode>>

\* A wait that unlocks first and blocks afterwards, as two steps.
read_wait_UnlockFirst(t) ==
  /\ pc[t] = "requested"
  /\ IF mutex = t
     THEN mutex' = NoOwner /\ pc' = pc
     ELSE mutex' = mutex /\ pc' = [pc EXCEPT ![t] = "waiting"]
  /\ UNCHANGED <<lifeVars, bridgeFields, args, code, ret, requests, since,
                 dropped, bufVars, owed, lastCode>>

\* fileAccess->cond.wait(lock): releases the mutex and blocks, atomically.
read_wait(t) ==
  /\ pc[t] = "requested"
  /\ mutex' = NoOwner
  /\ pc' = [pc EXCEPT ![t] = "waiting"]
  /\ UNCHANGED <<lifeVars, bridgeFields, args, code, ret, requests, since,
                 dropped, bufVars, owed, lastCode>>

\* cond.wait(lock) has no predicate: the wait may end with no notify_one.
cond_wait_spurious(t) ==
  /\ pc[t] = "waiting"
  /\ pc' = [pc EXCEPT ![t] = "woken"]
  /\ UNCHANGED <<lifeVars, bridgeFields, mutex, args, code, ret, requests,
                 since, dropped, bufVars, owed, lastCode>>

\* A wait that returns without the mutex.
read_relock_NoLock(t) ==
  /\ pc[t] = "woken"
  /\ pc' = [pc EXCEPT ![t] = "reacquired"]
  /\ UNCHANGED <<lifeVars, bridgeFields, mutex, args, code, ret, requests,
                 since, dropped, bufVars, owed, lastCode>>

\* cond.wait(lock) re-acquires the mutex before it returns.
read_relock(t) ==
  /\ pc[t] = "woken"
  /\ MutexFree
  /\ mutex' = t
  /\ pc' = [pc EXCEPT ![t] = "reacquired"]
  /\ UNCHANGED <<lifeVars, bridgeFields, args, code, ret, requests, since,
                 dropped, bufVars, owed, lastCode>>

\* A return that consumes the result.
read_return_Consume(t) ==
  /\ pc[t] = "reacquired"
  /\ ret' = [ret EXCEPT ![t] = <<retValue>>]
  /\ retValue' = 0
  /\ mutex' = NoOwner
  /\ pc' = [pc EXCEPT ![t] = "idle"]
  /\ UNCHANGED <<lifeVars, fileAccess, readBlock, param, args, code, requests,
                 since, dropped, bufVars, owed, lastCode>>

\* return fileAccess->retValue; and the unique_lock's destructor.
read_return(t) ==
  /\ pc[t] = "reacquired"
  /\ ret' = [ret EXCEPT ![t] = <<retValue>>]
  /\ mutex' = NoOwner
  /\ pc' = [pc EXCEPT ![t] = "idle"]
  /\ UNCHANGED <<lifeVars, bridgeFields, args, code, requests, since, dropped,
                 bufVars, owed, lastCode>>

\* ------------------------------------------ pdfrx_file_access_set_value
\* Entry into pdfrx_file_access_set_value(fileAccess, retValue).
set_value_call(c, v) ==
  /\ live
  /\ pc[c] = "idle"
  /\ strict => /\ owed > 0
               /\ \A d \in Completers : pc[d] = "idle"
  /\ code' = [code EXCEPT ![c] = v]
  /\ pc' = [pc EXCEPT ![c] = "locking"]
  /\ owed' = IF strict THEN owed - 1 ELSE owed
  /\ UNCHANGED <<lifeVars, bridgeFields, mutex, args, ret, requests, since,
                 dropped, bufVars, lastCode>>

\* std::unique_lock<std::mutex> lock(fileAccess->mutex);
set_value_lock(c) ==
  /\ pc[c] = "locking"
  /\ MutexFree
  /\ mutex' = c
  /\ pc' = [pc EXCEPT ![c] = "locked"]
  /\ UNCHANGED <<lifeVars, bridgeFields, args, code, ret, requests, since,
                 dropped, bufVars, owed, lastCode>>

\* A store that keeps the code only when a thread is waiting for it.
set_value_store_OnlyForWaiter(c) ==
  /\ pc[c] = "locked"
  /\ retValue' = IF Waiters # {} THEN code[c] ELSE retValue
  /\ pc' = [pc EXCEPT ![c] = "written"]
  /\ UNCHANGED <<lifeVars, fileAccess, readBlock, param, mutex, args, code,
                 ret, requests, since, dropped, bufVars, owed, lastCode>>

\* fileAccess->retValue = retValue;
set_value_store(c) ==
  /\ pc[c] = "locked"
  /\ retValue' = code[c]
  /\ pc' = [pc EXCEPT ![c] = "written"]
  /\ UNCHANGED <<lifeVars, fileAccess, readBlock, param, mutex, args, code,
                 ret, requests, since, dropped, bufVars, owed, lastCode>>

\* A notification that reaches nobody, and one that reaches every waiter.
NotifyTargets_Lost == {{}}
NotifyTargets_All == {Waiters}

\* The threads notify_one unblocks: one of the waiters, none if there is none.
NotifyTargets == IF Waiters = {} THEN {{}} ELSE {{t} : t \in Waiters}

\* fileAccess->cond.notify_one();
set_value_notify(c) ==
  /\ pc[c] = "written"
  /\ \E woke \in NotifyTargets :
       pc' = [t \in Threads |-> IF t = c THEN "notified"
                                ELSE IF t \in woke THEN "woken" ELSE pc[t]]
  /\ dropped' = (dropped \/ Waiters = {})
  /\ since' = [t \in Readers |->
                 IF requests[t] # <<>> THEN Remember(since[t], code[c])
                 ELSE since[t]]
  /\ UNCHANGED <<lifeVars, bridgeFields, mutex, args, code, ret, requests,
                 bufVars, owed, lastCode>>

\* The unique_lock's destructor at the end of the function; the call's
\* argument goes out of scope.
set_value_unlock(c) ==
  /\ pc[c] = "notified"
  /\ mutex' = NoOwner
  /\ pc' = [pc EXCEPT ![c] = "idle"]
  /\ code' = [code EXCEPT ![c] = 0]
  /\ lastCode' = code[c]
  /\ UNCHANGED <<lifeVars, bridgeFields, args, ret, requests, since,
                 dropped, bufVars, owed>>

\* ----------------------------------------------------- the host's side
\* The asynchronous byte source writes into a buffer it was handed by a
\* readBlock invocation (the bridge only passes the pointer on).
host_fill(b, p) ==
  /\ requests[b] # <<>>
  /\ mem[b] # p
  /\ mem' = [mem EXCEPT ![b] = p]
  /\ hostWrote' = [hostWrote EXCEPT ![b] = p]
  /\ UNCHANGED <<lifeVars, bridgeFields, mutex, pc, args, code, ret, requests,
                 since, dropped, owed, lastCode>>

\* ------------------------- set_value called from inside the callback
\* The host's readBlock calls pdfrx_file_access_set_value(fileAccess, v)
\* before it returns, on the worker's own thread, which owns the mutex since
\* the unique_lock of read().  The call reaches its own unique_lock.
readBlock_set_value_call(t) ==
  /\ ~strict
  /\ pc[t] = "locked"
  /\ requests' = [requests EXCEPT ![t] = Append(requests[t], Request(t))]
  /\ since' = [since EXCEPT ![t] = NoneSince]
  /\ pc' = [pc EXCEPT ![t] = "cb_locking"]
  /\ UNCHANGED <<lifeVars, bridgeFields, mutex, args, code, ret, dropped,
                 bufVars, owed, lastCode>>

\* std::unique_lock<std::mutex> lock(fileAccess->mutex) of set_value, on a
\* std::mutex (not a recursive one) that the calling thread already owns:
\* lock() never returns.  The thread goes no further, still owning the
\* mutex.
self_lock_blocks(t) ==
  /\ pc[t] = "cb_locking"
  /\ pc' = [pc EXCEPT ![t] = "stuck"]
  /\ UNCHANGED <<lifeVars, bridgeFields, mutex, args, code, ret, requests,
                 since, dropped, bufVars, owed, lastCode>>

\* --------------------------------------------------------------- Spec
\* Any caller: workers may overlap, the host may signal at any time.
Next ==
  \/ \E fs \in FileSizes, rb \in ReadBlocks, p \in Params :
       pdfrx_file_access_create(fs, rb, p)
  \/ pdfrx_file_access_destroy
  \/ \E t \in Readers, a \in ReadArgs : read_call(t, a[1], a[2])
  \/ \E t \in Readers : read_lock(t)
  \/ \E t \in Readers : read_readBlock(t)
  \/ \E t \in Readers : read_wait(t)
  \/ \E t \in Readers : cond_wait_spurious(t)
  \/ \E t \in Readers : read_relock(t)
  \/ \E t \in Readers : read_return(t)
  \/ \E c \in Completers, v \in Codes : set_value_call(c, v)
  \/ \E c \in Completers : set_value_lock(c)
  \/ \E c \in Completers : set_value_store(c)
  \/ \E c \in Completers : set_value_notify(c)
  \/ \E c \in Completers : set_value_unlock(c)
  \/ \E b \in Readers, p \in Patterns : host_fill(b, p)

Spec == Init /\ [][Next]_vars

\* A thread inside read() or set_value that can take its next step takes it
\* (fair scheduling of the threads), and the host answers every request it
\* owes.  Nothing obliges a worker to start a read, a wait to end
\* spuriously, or the host to write or to create or destroy a bridge.
Fairness ==
  /\ \A t \in Readers :
       /\ WF_vars(read_lock(t))
       /\ WF_vars(read_readBlock(t))
       /\ WF_vars(read_wait(t))
       /\ WF_vars(read_relock(t))
       /\ WF_vars(read_return(t))
  /\ WF_vars(\E c \in Completers, v \in Codes : set_value_call(c, v))
  /\ \A c \in Completers :
       /\ WF_vars(set_value_lock(c))
       /\ WF_vars(set_value_store(c))
       /\ WF_vars(set_value_notify(c))
       /\ WF_vars(set_value_unlock(c))

\* The bridge driven by a host that follows the protocol.
SpecHost == InitHost /\ [][Next]_vars /\ Fairness

\* One thread of control: a call of read() or set_value starts only while no
\* other call is in progress.
OneThread ==
  \A u \in Threads :
    (pc[u] = "idle" /\ pc'[u] # "idle") =>
      \A w \in Threads : pc[w] = "idle"

\* A host with a single thread of control (an event loop): it calls read(),
\* and it calls set_value either from inside readBlock or from its loop,
\* once the call it is in has returned.
NextSameThread ==
  \/ \E fs \in FileSizes, rb \in ReadBlocks, p \in Params :
       pdfrx_file_access_create(fs, rb, p)
  \/ pdfrx_file_access_destroy
  \/ \E t \in Readers, a \in ReadArgs :
       read_call(t, a[1], a[2]) /\ OneThread
  \/ \E t \in Readers : read_lock(t)
  \/ \E t \in Readers : read_readBlock(t)
  \/ \E t \in Readers : readBlock_set_value_call(t)
  \/ \E t \in Readers : self_lock_blocks(t)
  \/ \E t \in Readers : read_wait(t)
  \/ \E t \in Readers : cond_wait_spurious(t)
  \/ \E t \in Readers : read_relock(t)
  \/ \E t \in Readers : read_return(t)
  \/ \E c \in Completers, v \in Codes :
       set_value_call(c, v) /\ OneThread
  \/ \E c \in Completers : set_value_lock(c)
  \/ \E c \in Completers : set_value_store(c)
  \/ \E c \in Completers : set_value_notify(c)
  \/ \E c \in Completers : set_value_unlock(c)
  \/ \E b \in Readers, p \in Patterns : host_fill(b, p)

SpecSameThread == Init /\ [][NextSameThread]_vars

\* ------------------------------ the copy in darwin/Classes
\* pdfium_interop.cpp of darwin/Classes: the same struct and the same four
\* functions (its macros are named EXPORT and INTEROP_API), statement by
\* statement.
darwin_pdfrx_file_access_create(fileSize, rb, p) ==
  /\ ~live
  /\ live' = TRUE
  /\ fileAccess' = [m_FileLen |-> fileSize, m_GetBlock |-> "read",
                    m_Param |-> "fileAccess"]
  /\ retValue' = 0
  /\ readBlock' = rb
  /\ param' = p
  /\ mutex' = NoOwner
  /\ dropped' = FALSE
  /\ owed' = 0
  /\ created' = [fileSize |-> fileSize, readBlock |-> rb, param |-> p]
  /\ requests' = [t \in Readers |-> <<>>]
  /\ since' = [t \in Readers |-> NoneSince]
  /\ lastCode' = 0
  /\ UNCHANGED <<strict, pc, args, code, ret, bufVars>>

\* delete fileAccess.  The caller's precondition (no thread inside read()
\* or set_value, no completion still to come) is the guard; the freed
\* fields keep their stale values.
darwin_pdfrx_file_access_destroy ==
  /\ live
  /\ \A t \in Threads : pc[t] = "idle"
  /\ owed = 0
  /\ live' = FALSE
  /\ owed' = 0
  /\ UNCHANGED <<strict, bridgeFields, mutex, pc, args, code, ret, requests,
                 since, dropped, bufVars, created, lastCode>>

\* Entry into read(param, position, pBuf, size) through m_GetBlock; the
\* caller hands in a destination buffer whose contents are not yet set.
darwin_read_call(t, position, size) ==
  /\ live
  /\ pc[t] = "idle"
  /\ strict => /\ \A u \in Readers : pc[u] = "idle"
               /\ owed < MaxOwed
  /\ pc' = [pc EXCEPT ![t] = "locking"]
  /\ args' = [args EXCEPT ![t] = [position |-> position, pBuf |-> t,
                                  size |-> size]]
  /\ ret' = [ret EXCEPT ![t] = <<>>]
  /\ requests' = [requests EXCEPT ![t] = <<>>]
  /\ since' = [since EXCEPT ![t] = NoneSince]
  /\ mem' = [mem EXCEPT ![t] = Blank]
  /\ hostWrote' = [hostWrote EXCEPT ![t] = Blank]
  /\ UNCHANGED <<lifeVars, bridgeFields, mutex, code, dropped, owed, lastCode>>

\* std::unique_lock<std::mutex> lock(fileAccess->mutex);
darwin_read_lock(t) ==
  /\ pc[t] = "locking"
  /\ MutexFree
  /\ mutex' = t
  /\ pc' = [pc EXCEPT ![t] = "locked"]
  /\ UNCHANGED <<lifeVars, bridgeFields, args, code, ret, requests, since,
                 dropped, bufVars, owed, lastCode>>

\* A read that hands the bridge itself to the callback as its context.
darwin_read_readBlock_OwnParam(t) ==
  /\ pc[t] = "locked"
  /\ requests' = [requests EXCEPT ![t] =
                    Append(requests[t],
                           [Request(t) EXCEPT !.param = fileAccess.m_Param])]
  /\ since' = [since EXCEPT ![t] = NoneSince]
  /\ owed' = IF strict THEN owed + 1 ELSE owed
  /\ pc' = [pc EXCEPT ![t] = "requested"]
  /\ UNCHANGED <<lifeVars, bridgeFields, mutex, args, code, ret, dropped,
                 bufVars, lastCode>>

\* fileAccess->readBlock(fileAccess->param, position, pBuf, size);
darwin_read_readBlock(t) ==
  /\ pc[t] = "locked"
  /\ requests' = [requests EXCEPT ![t] = Append(requests[t], Request(t))]
  /\ since' = [since EXCEPT ![t] = NoneSince]
  /\ owed' = IF strict THEN owed + 1 ELSE owed
  /\ pc' = [pc EXCEPT ![t] = "requested"]
  /\ UNCHANGED <<lifeVars, bridgeFields, mutex, args, code, ret, dropped,
                 bufVars, lastCode>>

\* fileAccess->cond.wait(lock): releases the mutex and blocks, atomically.
darwin_read_wait(t) ==
  /\ pc[t] = "requested"
  /\ mutex' = NoOwner
  /\ pc' = [pc EXCEPT ![t] = "waiting"]
  /\ UNCHANGED <<lifeVars, bridgeFields, args, code, ret, requests, since,
                 dropped, bufVars, owed, lastCode>>

\* cond.wait(lock) has no predicate: the wait may end with no notify_one.
darwin_cond_wait_spurious(t) ==
  /\ pc[t] = "waiting"
  /\ pc' = [pc EXCEPT ![t] = "woken"]
  /\ UNCHANGED <<lifeVars, bridgeFields, mutex, args, code, ret, requests,
                 since, dropped, bufVars, owed, lastCode>>

\* cond.wait(lock) re-acquires the mutex before it returns.
darwin_read_relock(t) ==
  /\ pc[t] = "woken"
  /\ MutexFree
  /\ mutex' = t
  /\ pc' = [pc EXCEPT ![t] = "reacquired"]
  /\ UNCHANGED <<lifeVars, bridgeFields, args, code, ret, requests, since,
                 dropped, bufVars, owed, lastCode>>

\* return fileAccess->retValue; and the unique_lock's destructor.
darwin_read_return(t) ==
  /\ pc[t] = "reacquired"
  /\ ret' = [ret EXCEPT ![t] = <<retValue>>]
  /\ mutex' = NoOwner
  /\ pc' = [pc EXCEPT ![t] = "idle"]
  /\ UNCHANGED <<lifeVars, bridgeFields, args, code, requests, since, dropped,
                 bufVars, owed, lastCode>>

\* Entry into pdfrx_file_access_set_value(fileAccess, retValue).
darwin_set_value_call(c, v) ==
  /\ live
  /\ pc[c] = "idle"
  /\ strict => /\ owed > 0
               /\ \A d \in Completers : pc[d] = "idle"
  /\ code' = [code EXCEPT ![c] = v]
  /\ pc' = [pc EXCEPT ![c] = "locking"]
  /\ owed' = IF strict THEN owed - 1 ELSE owed
  /\ UNCHANGED <<lifeVars, bridgeFields, mutex, args, ret, requests, since,
                 dropped, bufVars, lastCode>>

\* std::unique_lock<std::mutex> lock(fileAccess->mutex);
darwin_set_value_lock(c) ==
  /\ pc[c] = "locking"
  /\ MutexFree
  /\ mutex' = c
  /\ pc' = [pc EXCEPT ![c] = "locked"]
  /\ UNCHANGED <<lifeVars, bridgeFields, args, code, ret, requests, since,
                 dropped, bufVars, owed, lastCode>>

\* fileAccess->retValue = retValue;
darwin_set_value_store(c) ==
  /\ pc[c] = "locked"
  /\ retValue' = code[c]
  /\ pc' = [pc EXCEPT ![c] = "written"]
  /\ UNCHANGED <<lifeVars, fileAccess, readBlock, param, mutex, args, code,
                 ret, requests, since, dropped, bufVars, owed, lastCode>>

\* fileAccess->cond.notify_one();
darwin_set_value_notify(c) ==
  /\ pc[c] = "written"
  /\ \E woke \in NotifyTargets :
       pc' = [t \in Threads |-> IF t = c THEN "notified"
                                ELSE IF t \in woke THEN "woken" ELSE pc[t]]
  /\ dropped' = (dropped \/ Waiters = {})
  /\ since' = [t \in Readers |->
                 IF requests[t] # <<>> THEN Remember(since[t], code[c])
                 ELSE since[t]]
  /\ UNCHANGED <<lifeVars, bridgeFields, mutex, args, code, ret, requests,
                 bufVars, owed, lastCode>>

\* The unique_lock's destructor at the end of the function; the call's
\* argument goes out of scope.
darwin_set_value_unlock(c) ==
  /\ pc[c] = "notified"
  /\ mutex' = NoOwner
  /\ pc' = [pc EXCEPT ![c] = "idle"]
  /\ code' = [code EXCEPT ![c] = 0]
  /\ lastCode' = code[c]
  /\ UNCHANGED <<lifeVars, bridgeFields, args, ret, requests, since,
                 dropped, bufVars, owed>>

NextDarwin ==
  \/ \E fs \in FileSizes, rb \in ReadBlocks, p \in Params :
       darwin_pdfrx_file_access_create(fs, rb, p)
  \/ darwin_pdfrx_file_access_destroy
  \/ \E t \in Readers, a \in ReadArgs : darwin_read_call(t, a[1], a[2])
  \/ \E t \in Readers : darwin_read_lock(t)
  \/ \E t \in Readers : darwin_read_readBlock(t)
  \/ \E t \in Readers : darwin_read_wait(t)
  \/ \E t \in Readers : darwin_cond_wait_spurious(t)
  \/ \E t \in Readers : darwin_read_relock(t)
  \/ \E t \in Readers : darwin_read_return(t)
  \/ \E c \in Completers, v \in Codes : darwin_set_value_call(c, v)
  \/ \E c \in Completers : darwin_set_value_lock(c)
  \/ \E c \in Completers : darwin_set_value_store(c)
  \/ \E c \in Completers : darwin_set_value_notify(c)
  \/ \E c \in Completers : darwin_set_value_unlock(c)

\* Both copies offered the same state: a step is a step of either.  The
\* host's writes into buffers are no step of the bridge and are left out.
NextPair ==
  \/ Next /\ UNCHANGED bufVars
  \/ NextDarwin

SpecPair == Init /\ [][NextPair]_vars

\* ------------------------------------------------------------ claims
InRead(t) == pc[t] # "idle"
Returned(t) == pc[t] = "idle" /\ ret[t] # <<>>
\* Between the readBlock invocation of a call and its return.
InFlight == {t \in Readers : pc[t] \in {"requested", "waiting", "woken",
                                        "reacquired"}}
\* Past the wait of cond.wait(lock), not yet returned.
Released == {t \in Readers : pc[t] \in {"woken", "reacquired"}}
InRange(t) == args[t].position + args[t].size <= fileAccess.m_FileLen
\* The request read() has to hand on, from the arguments of create and read.
Expected(t) == [fn |-> created.readBlock, param |-> created.param,
                position |-> args[t].position, pBuf |-> args[t].pBuf,
                size |-> args[t].size]

\* C1: when exactly one set_value(c) was signalled after the readBlock
\* invocation of a read() call, that call returns c.
C1_ReturnsTheSignalledCode ==
  \A t \in Readers :
    (Returned(t) /\ since[t].n = 1) => ret[t] = <<since[t].first>>

\* C2: a thread leaves the wait of read() only if some set_value was
\* signalled on the bridge after that call's readBlock invocation.
C2_ReleasedOnlyByCompleteRead ==
  \A t \in Released : since[t].n >= 1

\* C3 as stated: at most one thread is between the invocation of its
\* readBlock and its return from read().
C3_AtMostOneReadInFlight == Cardinality(InFlight) <= 1

\* C3 as amended: the mutex serializes the sections in which it is held.  At
\* most one thread at a time is between acquiring the lock and starting to
\* wait, or between re-acquiring it and returning, or inside set_value, and
\* the mutex records that thread; a thread blocked in the wait holds nothing.
C3_LockSerializesHeldSections ==
  /\ Cardinality(Holders) <= 1
  /\ \A t \in Holders : mutex = t
  /\ Holders = {} => mutex = NoOwner

\* Two reads in flight at once: one worker blocked in the wait while the
\* other has invoked readBlock and holds the lock.
C3_Witness ==
  \E t, u \in Readers :
    /\ pc[t] = "waiting" /\ pc[u] = "requested"
    /\ mutex = u
    /\ requests[t] # <<>> /\ requests[u] # <<>>

\* C4: after a set_value that found no thread waiting, a read() that waits
\* afterwards leaves its wait only once a further set_value was signalled
\* after its own request.
C4_NoQueuedReadiness ==
  \A t \in Released : dropped => since[t].n >= 1

\* C5: with a host that answers every readBlock invocation with exactly one
\* set_value, from another thread and after the invocation, and with reads
\* that never overlap, every call of read() eventually returns.
C5_EveryReadReturns == \A t \in Readers : InRead(t) ~> Returned(t)

\* A read answered by its one completion has returned the code, and the
\* host owes nothing more.
C5_Witness ==
  \E t \in Readers :
    /\ strict /\ owed = 0
    /\ Returned(t) /\ since[t].n = 1 /\ ret[t] = <<1>>
    /\ \A c \in Completers : pc[c] = "idle"

\* C6: set_value stores the code and notifies under the lock, as one step for
\* every other thread, and the notification unblocks exactly one waiter when
\* there is one (none otherwise); the others stay blocked, and the stored
\* code is in place when the waiter is unblocked.
C6_StoreAndWakeOne ==
  [][\A c \in Completers :
       /\ pc[c] \in {"written", "notified"} =>
            /\ mutex = c
            /\ retValue = code[c]
            /\ \A t \in Readers : pc[t] \notin ReaderHolds
       /\ (pc[c] = "written" /\ pc'[c] = "notified") =>
            LET woke == {t \in Readers : pc[t] # pc'[t]}
            IN /\ woke \subseteq Waiters
               /\ Waiters # {} => Cardinality(woke) = 1
               /\ \A t \in woke : pc'[t] = "woken"
               /\ retValue' = code[c] /\ mutex' = c
    ]_vars

\* Two workers were blocked; one set_value has unblocked one of them and the
\* other is still blocked.
C6_Witness ==
  \E c \in Completers, t, u \in Readers :
    /\ pc[c] = "notified"
    /\ pc[t] = "woken" /\ since[t].n = 1 /\ since[t].first = code[c]
    /\ pc[u] = "waiting" /\ since[u].n = 1

\* C7: every call of read() invokes readBlock exactly once, before it blocks,
\* with the bridge's param and the call's position, pBuf and size unchanged,
\* also when position + size exceeds m_FileLen.
C7_OneRequestPassedThrough ==
  \A t \in Readers :
    /\ pc[t] \in {"locking", "locked"} => requests[t] = <<>>
    /\ t \in InFlight => requests[t] = <<Expected(t)>>
    /\ (Returned(t) /\ requests[t] # <<>>) => requests[t] = <<Expected(t)>>

\* A request past the end of the file was handed on and its caller blocks.
C7_Witness ==
  \E t \in Readers :
    /\ pc[t] = "waiting"
    /\ ~InRange(t)
    /\ requests[t] = <<Expected(t)>>

\* C8: create yields a live bridge with retValue 0, nobody inside read() and
\* the mutex free, whose descriptor carries the file size, the read function
\* and the bridge itself as m_Param, and create does not invoke readBlock.
C8_CreateInitialises ==
  [][(~live /\ live') =>
       /\ retValue' = 0
       /\ fileAccess' = [m_FileLen |-> created'.fileSize,
                         m_GetBlock |-> "read", m_Param |-> "fileAccess"]
       /\ readBlock' = created'.readBlock
       /\ param' = created'.param
       /\ mutex' = NoOwner
       /\ \A t \in Threads : pc'[t] = "idle"
       /\ \A t \in Readers : requests'[t] = <<>>
       /\ owed' = 0
       /\ bufVars' = bufVars
    ]_vars

\* A second bridge, fresh, after a first one had returned 1 to a worker.
C8_Witness ==
  /\ live
  /\ retValue = 0
  /\ \A t \in Threads : pc[t] = "idle"
  /\ \A t \in Readers : requests[t] = <<>>
  /\ \E t \in Readers : ret[t] = <<1>>

\* C9: for a request inside the file answered by exactly one set_value(1),
\* read() returns 1 and the buffer holds what the asynchronous side wrote;
\* the bridge itself never touches the buffer.
C9_SuccessAndBufferIntact ==
  \A t \in Readers :
    (Returned(t) /\ InRange(t) /\ since[t].n = 1 /\ since[t].first = 1) =>
      /\ ret[t] = <<1>>
      /\ mem[args[t].pBuf] = hostWrote[args[t].pBuf]

\* C10: on a live bridge m_FileLen, m_GetBlock, m_Param, readBlock and param
\* keep the values create gave them; retValue changes only by the store of
\* set_value, to that call's code; no step of read() changes a field.
C10_FieldsFixed ==
  [][/\ live =>
          /\ fileAccess = [m_FileLen |-> created.fileSize,
                           m_GetBlock |-> "read", m_Param |-> "fileAccess"]
          /\ readBlock = created.readBlock
          /\ param = created.param
     /\ (live /\ live') =>
          /\ <<fileAccess, readBlock, param>>' = <<fileAccess, readBlock, param>>
          /\ retValue' # retValue =>
               \E c \in Completers :
                 /\ pc[c] = "locked" /\ pc'[c] = "written"
                 /\ retValue' = code[c]
          /\ (\E t \in Readers : pc'[t] # pc[t] /\ pc[t] # "waiting") =>
               retValue' = retValue
    ]_vars

\* A bridge that has served a read answered with 1 still has its fields.
C10_Witness ==
  /\ live
  /\ retValue = 1
  /\ \E t \in Readers : Returned(t) /\ ret[t] = <<1>> /\ since[t].n = 1
  /\ param = created.param /\ readBlock = created.readBlock
  /\ fileAccess.m_FileLen = created.fileSize

\* C11: when every set_value is called on the thread that executes read()
\* (from inside readBlock, or from the loop of a single-threaded host that
\* is blocked in read()), that read() never returns, a set_value called
\* from inside readBlock never gets past its lock, and no set_value runs
\* while the thread is inside read().
C11_SameThreadDeadlocks ==
  [][\A t \in Readers :
       /\ InRead(t) => pc'[t] # "idle"
       /\ pc[t] \in {"cb_locking", "stuck"} =>
            /\ pc'[t] \in {"cb_locking", "stuck"}
            /\ <<retValue, mutex>>' = <<retValue, mutex>>
       /\ InRead(t) => \A c \in Completers : pc[c] = "idle" /\ pc'[c] = "idle"
    ]_vars

\* The part of C11 about the call from inside readBlock, by itself.
C11_CallbackCallNeverReturns ==
  [][\A t \in Readers :
       pc[t] \in {"cb_locking", "stuck"} =>
         /\ pc'[t] \in {"cb_locking", "stuck"}
         /\ <<retValue, mutex>>' = <<retValue, mutex>>
    ]_vars

\* The threads whose next statement reads or writes retValue.
Accessing == {c \in Completers : pc[c] = "locked"}
               \cup {t \in Readers : pc[t] = "reacquired"}

\* C12: on a live bridge retValue is written by set_value and read by read()
\* only while the accessing thread owns the mutex, read() reads it after the
\* wait has re-acquired the lock, and no two threads are at an access of
\* retValue at the same time.
C12_RetValueUnderLock ==
  [][/\ \A a \in Accessing : mutex = a
     /\ Cardinality(Accessing) <= 1
     /\ (live /\ live' /\ retValue' # retValue) =>
          \E c \in Completers :
            pc[c] = "locked" /\ pc'[c] = "written" /\ mutex = c
     /\ \A t \in Readers :
          (ret'[t] # ret[t] /\ ret'[t] # <<>>) =>
            /\ pc[t] = "reacquired" /\ mutex = t
            /\ ret'[t] = <<retValue>>
    ]_vars

\* A worker is about to read retValue under the lock while a set_value with
\* another code is held back at its unique_lock.
C12_Witness ==
  \E t \in Readers, c \in Completers :
    /\ pc[t] = "reacquired" /\ mutex = t
    /\ pc[c] = "locking" /\ code[c] # retValue

\* C13: destroy of a bridge with no thread inside read() or set_value, after
\* any number of completed reads, releases the bridge without invoking
\* readBlock, without changing a result already returned and without
\* unblocking any thread; a destroyed bridge is not destroyed again and no
\* function acts on it.
C13_DestroyIsQuiet ==
  [][/\ (live /\ ~live') =>
          /\ \A t \in Threads : pc[t] = "idle"
          /\ pc' = pc
          /\ requests' = requests
          /\ ret' = ret
          /\ bufVars' = bufVars
     /\ (~live /\ ~live') =>
          /\ pc' = pc
          /\ requests' = requests
          /\ ret' = ret
          /\ <<bridgeFields, mutex>>' = <<bridgeFields, mutex>>
    ]_vars

\* A bridge destroyed after both workers completed a read on it.
C13_Witness ==
  /\ ~live
  /\ \A t \in Readers : Returned(t) /\ requests[t] # <<>> /\ since[t].n >= 1

\* C14: read() owns the mutex from before its readBlock invocation until the
\* wait releases it, so a set_value called after the invocation stores and
\* notifies only once no worker is between its lock and its wait; every
\* worker in flight is then blocked in the wait or already past it, and the
\* notification unblocks one that is blocked (the one, when a single read is
\* in flight).
C14_NoLostWakeUp ==
  [][\A c \in Completers :
       /\ pc[c] \in CompleterHolds =>
            \A t \in Readers : pc[t] \notin {"locked", "requested"}
       /\ (pc[c] = "written" /\ pc'[c] = "notified") =>
            /\ \A t \in InFlight : pc[t] \in {"waiting", "woken"}
            /\ Waiters # {} => \E t \in Waiters : pc'[t] = "woken"
            /\ \A t \in InFlight : InFlight = {t} => pc'[t] = "woken"
    ]_vars

\* A set_value called in the window: the worker has invoked readBlock and
\* not yet started to wait; the host thread is held back at its lock.
C14_Witness ==
  \E t \in Readers, c \in Completers :
    /\ pc[t] = "requested" /\ mutex = t
    /\ pc[c] = "locking" /\ code[c] = 1

\* C15: in every interleaving, callers that break the protocol included, the
\* value a read() returns is the code of the latest set_value call that had
\* finished on the bridge when the wait re-acquired the lock, or 0 from
\* create if none had; no set_value finishes between the re-acquisition and
\* the return, and the value is one that create or a set_value wrote.
C15_ReturnsLatestFinished ==
  [][\A t \in Readers :
       /\ pc[t] = "reacquired" =>
            /\ retValue = lastCode
            /\ lastCode' = lastCode
       /\ (pc[t] = "reacquired" /\ pc'[t] = "idle") =>
            /\ ret'[t] = <<lastCode>>
            /\ lastCode \in Codes \cup {0}
    ]_vars

\* A read() that returned 1 although no set_value was signalled after its
\* request: the code recorded for another request.
C15_Witness ==
  \E t \in Readers :
    /\ Returned(t) /\ requests[t] # <<>>
    /\ since[t].n = 0 /\ ret[t] = <<1>>
    /\ lastCode = 1

\* C16: the copy of the bridge in darwin/Classes and the copy in
\* packages/pdfrx/src take the same steps: from every state either copy can
\* reach, a step of create, destroy, read() or set_value, with given
\* arguments and thread, is a step of the one copy exactly when it is a step
\* of the other, so they invoke readBlock with the same arguments, block and
\* wake at the same points and return the same codes.
C16_CopiesAgree ==
  [][/\ \A fs \in FileSizes, rb \in ReadBlocks, p \in Params :
          pdfrx_file_access_create(fs, rb, p)
            <=> darwin_pdfrx_file_access_create(fs, rb, p)
     /\ pdfrx_file_access_destroy <=> darwin_pdfrx_file_access_destroy
     /\ \A t \in Readers :
          /\ \A a \in ReadArgs :
               read_call(t, a[1], a[2]) <=> darwin_read_call(t, a[1], a[2])
          /\ read_lock(t) <=> darwin_read_lock(t)
          /\ read_readBlock(t) <=> darwin_read_readBlock(t)
          /\ read_wait(t) <=> darwin_read_wait(t)
          /\ cond_wait_spurious(t) <=> darwin_cond_wait_spurious(t)
          /\ read_relock(t) <=> darwin_read_relock(t)
          /\ read_return(t) <=> darwin_read_return(t)
     /\ \A c \in Completers :
          /\ \A v \in Codes : set_value_call(c, v) <=> darwin_set_value_call(c, v)
          /\ set_value_lock(c) <=> darwin_set_value_lock(c)
          /\ set_value_store(c) <=> darwin_set_value_store(c)
          /\ set_value_notify(c) <=> darwin_set_value_notify(c)
          /\ set_value_unlock(c) <=> darwin_set_value_unlock(c)
    ]_vars

\* Both copies have served a read answered with 1 while the other worker is
\* still blocked in its wait.
C16_Witness ==
  \E t, u \in Readers :
    /\ Returned(t) /\ ret[t] = <<1>> /\ since[t].n >= 1
    /\ requests[t] = <<Expected(t)>>
    /\ pc[u] = "waiting" /\ requests[u] = <<Expected(u)>>

====
